---- MODULE Spec2Model ----
(***************************************************************************)
(* Model of src/app.py (Flask + HTMX demo): the in-memory task store with  *)
(* its CRUD handlers, the server-sent-events generator, and the handlers   *)
(* run by concurrent request threads.                                      *)
(*                                                                         *)
(*   Spec       the task store, one request handled at a time              *)
(*   StreamSpec the SSE generators, one per connection, run to completion  *)
(*   ConcSpec   create and delete handlers whose steps interleave          *)
(***************************************************************************)
EXTENDS Integers, Sequences, FiniteSets, TLC

\* ------------------------------------------------------------------ bounds
\* create is modelled while next_task_id <= MaxTaskId; ids in requests are 1..MaxTaskId
MaxTaskId == 5
\* number of requests served in one run of Spec
MaxOps == 4
\* number of SSE connections
NumStreams == 2
\* number of request threads in ConcSpec
NumThreads == 2

\* ------------------------------------------------------------ input values
\* Python's None: what request.form.get returns for a field that is absent
None == "<None>"
\* titles a request may carry: absent, empty, non-empty
Titles == {None, "", "Write spec"}
\* priorities a request may carry: absent, or a value
Priorities == {None, "high"}
\* the status values a list request may carry
Filters == {"all", "completed", "active"}
IdInputs == 1..MaxTaskId

VARIABLES
    nops,           \* history: the number of requests served so far
    tasks,          \* the global list `tasks`
    next_task_id,   \* the global counter `next_task_id`
    assigned,       \* history: the ids create_task has given out, in order
    req,            \* the request the last handler served
    resp,           \* the response it returned: status and the tasks it rendered
    spc, si, emitted, wire,   \* SSE generators: position, loop variable i, counts yielded, last event yielded
    tpc, treq, tlocal, tresp  \* request threads: position, request, handler local, status returned

vars == <<nops, tasks, next_task_id, assigned, req, resp, spc, si, emitted, wire, tpc, treq, tlocal, tresp>>
storeVars == <<nops, tasks, next_task_id, assigned, req, resp>>
streamVars == <<spc, si, emitted, wire>>
threadVars == <<tpc, treq, tlocal, tresp>>

Streams == 1..NumStreams
Threads == 1..NumThreads

\* ------------------------------------------------------------- task store
\* the module-level list `tasks`
InitialTasks ==
    << [id |-> 1, title |-> "Learn HTMX", completed |-> FALSE, priority |-> "high"],
       [id |-> 2, title |-> "Build Flask App", completed |-> FALSE, priority |-> "medium"],
       [id |-> 3, title |-> "Deploy to Production", completed |-> FALSE, priority |-> "low"] >>

InitialNextTaskId == 4

\* Python truthiness of a form value: `not title`
falsy_only_none(v) == v = None
falsy(v) == v = None \/ v = ""

\* request.form.get(key, default)
form_get(v, default) == IF v = None THEN default ELSE v

\* next((t for t in tasks if t['id'] == task_id), None), as the index of the
\* task in the list; 0 stands for None
find_task(ts, task_id) ==
    IF \E i \in 1..Len(ts) : ts[i].id = task_id
    THEN CHOOSE i \in 1..Len(ts) :
            /\ ts[i].id = task_id
            /\ \A j \in 1..(i - 1) : ts[j].id # task_id
    ELSE 0

\* the dict create_task builds
new_task_len_id(ts, nid, title, priority) ==
    [id |-> Len(ts) + 1, title |-> title, completed |-> FALSE, priority |-> priority]
new_task_medium(ts, nid, title, priority) ==
    [id |-> nid, title |-> title, completed |-> FALSE, priority |-> "medium"]
new_task(ts, nid, title, priority) ==
    [id |-> nid, title |-> title, completed |-> FALSE, priority |-> priority]

\* get_tasks: the list handed to the task_list template; SelectSeq is the
\* list comprehension [t for t in ts if ...]
get_tasks_no_not(ts, status) ==
    IF status = "completed" THEN SelectSeq(ts, LAMBDA t : t.completed)
    ELSE ts
get_tasks(ts, status) ==
    IF status = "completed" THEN SelectSeq(ts, LAMBDA t : t.completed)
    ELSE IF status = "active" THEN SelectSeq(ts, LAMBDA t : ~t.completed)
    ELSE ts

\* create_task on store (ts, nid) with form fields title and priority (None when
\* absent): the store after it, the status and the task rendered
create_task(ts, nid, title, priority) ==
    IF falsy(title)
    THEN [tasks |-> ts, next_task_id |-> nid, status |-> 400, body |-> <<>>]
    ELSE LET t == new_task(ts, nid, title, form_get(priority, "medium"))
         IN [tasks |-> Append(ts, t), next_task_id |-> nid + 1,
             status |-> 200, body |-> <<t>>]

\* toggle_task
toggle_task_set_true(ts, task_id) ==
    LET i == find_task(ts, task_id)
    IN IF i = 0 THEN [tasks |-> ts, status |-> 404, body |-> <<>>]
       ELSE LET new == [ts EXCEPT ![i].completed = TRUE]
            IN [tasks |-> new, status |-> 200, body |-> <<new[i]>>]
toggle_task(ts, task_id) ==
    LET i == find_task(ts, task_id)
    IN IF i = 0 THEN [tasks |-> ts, status |-> 404, body |-> <<>>]
       ELSE LET new == [ts EXCEPT ![i].completed = ~ts[i].completed]
            IN [tasks |-> new, status |-> 200, body |-> <<new[i]>>]

\* update_task: the lookup comes first, then the title check
update_task_validate_first(ts, task_id, title, priority) ==
    LET i == find_task(ts, task_id)
    IN IF falsy(title) THEN [tasks |-> ts, status |-> 400, body |-> <<>>]
       ELSE IF i = 0 THEN [tasks |-> ts, status |-> 404, body |-> <<>>]
       ELSE LET new == [ts EXCEPT ![i].title = title, ![i].priority = priority]
            IN [tasks |-> new, status |-> 200, body |-> <<new[i]>>]
update_task(ts, task_id, title, priority) ==
    LET i == find_task(ts, task_id)
    IN IF i = 0 THEN [tasks |-> ts, status |-> 404, body |-> <<>>]
       ELSE IF falsy(title) THEN [tasks |-> ts, status |-> 400, body |-> <<>>]
       ELSE LET new == [ts EXCEPT ![i].title = title, ![i].priority = priority]
            IN [tasks |-> new, status |-> 200, body |-> <<new[i]>>]

\* delete_task: tasks = [t for t in tasks if t['id'] != task_id]
delete_task_by_position(ts, task_id) ==
    [tasks |-> IF task_id \in 1..Len(ts)
               THEN SubSeq(ts, 1, task_id - 1) \o SubSeq(ts, task_id + 1, Len(ts))
               ELSE ts,
     status |-> 200, body |-> <<>>]
delete_task(ts, task_id) ==
    [tasks |-> SelectSeq(ts, LAMBDA t : t.id # task_id), status |-> 200, body |-> <<>>]

\* the request and response before any request was served
NoReq == [op |-> "none"]
NoResp == [status |-> 0, body |-> <<>>]

StreamIdle ==
    /\ spc = [s \in Streams |-> "idle"]
    /\ si = [s \in Streams |-> 0]
    /\ emitted = [s \in Streams |-> <<>>]
    /\ wire = <<>>

ThreadsIdle ==
    /\ tpc = [t \in Threads |-> "idle"]
    /\ treq = [t \in Threads |-> NoReq]
    /\ tlocal = [t \in Threads |-> <<>>]
    /\ tresp = [t \in Threads |-> 0]

StoreInit ==
    /\ nops = 0
    /\ tasks = InitialTasks
    /\ next_task_id = InitialNextTaskId
    /\ assigned = <<>>
    /\ req = NoReq
    /\ resp = NoResp

Init == StoreInit /\ StreamIdle /\ ThreadsIdle

\* GET /api/tasks?status=...
GetTasks ==
    \E status \in Filters :
        /\ req' = [op |-> "list", status |-> status]
        /\ resp' = [status |-> 200, body |-> get_tasks(tasks, status)]
        /\ UNCHANGED <<tasks, next_task_id, assigned>>

\* POST /api/tasks
CreateTask ==
    /\ next_task_id <= MaxTaskId
    /\ \E title \in Titles, priority \in Priorities :
        LET r == create_task(tasks, next_task_id, title, priority)
        IN /\ tasks' = r.tasks
           /\ next_task_id' = r.next_task_id
           /\ assigned' = IF r.status = 200 THEN Append(assigned, r.body[1].id) ELSE assigned
           /\ req' = [op |-> "create", title |-> title, priority |-> priority]
           /\ resp' = [status |-> r.status, body |-> r.body]

\* PUT/POST /api/tasks/<id>/toggle
ToggleTask ==
    \E task_id \in IdInputs :
        LET r == toggle_task(tasks, task_id)
        IN /\ tasks' = r.tasks
           /\ req' = [op |-> "toggle", id |-> task_id]
           /\ resp' = [status |-> r.status, body |-> r.body]
           /\ UNCHANGED <<next_task_id, assigned>>

\* PUT/POST /api/tasks/<id>
UpdateTask ==
    \E task_id \in IdInputs, title \in Titles, priority \in Priorities :
        LET r == update_task(tasks, task_id, title, priority)
        IN /\ tasks' = r.tasks
           /\ req' = [op |-> "update", id |-> task_id, title |-> title, priority |-> priority]
           /\ resp' = [status |-> r.status, body |-> r.body]
           /\ UNCHANGED <<next_task_id, assigned>>

\* DELETE /api/tasks/<id>
DeleteTask ==
    \E task_id \in IdInputs :
        LET r == delete_task(tasks, task_id)
        IN /\ tasks' = r.tasks
           /\ req' = [op |-> "delete", id |-> task_id]
           /\ resp' = [status |-> r.status, body |-> r.body]
           /\ UNCHANGED <<next_task_id, assigned>>

\* one request is served at a time, MaxOps requests in all
Served ==
    /\ nops < MaxOps
    /\ nops' = nops + 1
    /\ UNCHANGED <<streamVars, threadVars>>

Next ==
    \/ GetTasks /\ Served
    \/ CreateTask /\ Served
    \/ ToggleTask /\ Served
    \/ UpdateTask /\ Served
    \/ DeleteTask /\ Served

Spec == Init /\ [][Next]_vars

\* --------------------------------------------------------------- SSE stream
\* range(10) in generate()
NumEvents == 10
\* random.randint(1, 100)
RandLow == 1
RandHigh == 100
\* random.randint(a, b) returns an integer N with a <= N <= b; the model draws
\* both ends and the middle of the range
randint(a, b) == {a, (a + b) \div 2, b}

\* the dict generate() builds in iteration i; message is f'Update {i + 1}'
data_count_i(i, value) ==
    [count |-> i, message |-> <<"Update", i + 1>>, value |-> value]
data(i, value) ==
    [count |-> i + 1, message |-> <<"Update", i + 1>>, value |-> value]

\* GET /api/sse-stream: Response(generate()) makes a new generator
StartStream(s) ==
    /\ spc[s] = "idle"
    /\ spc' = [spc EXCEPT ![s] = "run"]
    /\ si' = [si EXCEPT ![s] = 0]
    /\ UNCHANGED <<emitted, wire>>

\* one iteration of the loop: sleep, build data, yield it
Yield(s) ==
    /\ spc[s] = "run"
    /\ si[s] < NumEvents
    /\ \E value \in randint(RandLow, RandHigh) :
        LET d == data(si[s], value)
        IN /\ wire' = <<d>>
           /\ emitted' = [emitted EXCEPT ![s] = Append(@, d.count)]
    /\ si' = [si EXCEPT ![s] = @ + 1]
    /\ UNCHANGED spc

\* range(10) is exhausted: the generator returns
StopIteration(s) ==
    /\ spc[s] = "run"
    /\ si[s] = NumEvents
    /\ spc' = [spc EXCEPT ![s] = "done"]
    /\ UNCHANGED <<si, emitted, wire>>

\* the server pulls the next item from generator s
Pull(s) ==
    /\ \/ Yield(s)
       \/ StopIteration(s)
    /\ UNCHANGED <<storeVars, threadVars>>

StreamNext ==
    \E s \in Streams :
        \/ StartStream(s) /\ UNCHANGED <<storeVars, threadVars>>
        \/ Yield(s) /\ UNCHANGED <<storeVars, threadVars>>
        \/ StopIteration(s) /\ UNCHANGED <<storeVars, threadVars>>

\* the server keeps pulling from a generator whose client stays connected
StreamSpec ==
    /\ Init
    /\ [][StreamNext]_vars
    /\ \A s \in Streams : WF_vars(Pull(s))

\* ------------------------------------------------- concurrent request threads
\* The development server handles each request in its own thread and the
\* handlers take no lock: a thread switch can fall between any two of the
\* steps below. `next_task_id += 1` is taken as one step.
ThreadRequests ==
    {[op |-> "create", title |-> title, priority |-> priority] :
        title \in Titles, priority \in Priorities}
    \cup {[op |-> "delete", id |-> task_id] : task_id \in IdInputs}

\* a request arrives and is given to thread t
Receive(t) ==
    /\ tpc[t] = "idle"
    /\ \E r \in ThreadRequests : treq' = [treq EXCEPT ![t] = r]
    /\ tpc' = [tpc EXCEPT ![t] = "start"]
    /\ UNCHANGED <<tasks, next_task_id, tlocal, tresp>>

\* create_task up to the dict: read the form, check the title, read next_task_id
CreateBuild(t) ==
    /\ tpc[t] = "start"
    /\ treq[t].op = "create"
    /\ IF falsy(treq[t].title)
       THEN /\ tpc' = [tpc EXCEPT ![t] = "done"]
            /\ tresp' = [tresp EXCEPT ![t] = 400]
            /\ UNCHANGED tlocal
       ELSE /\ tpc' = [tpc EXCEPT ![t] = "append"]
            /\ tlocal' = [tlocal EXCEPT ![t] =
                    new_task(tasks, next_task_id, treq[t].title,
                             form_get(treq[t].priority, "medium"))]
            /\ UNCHANGED tresp
    /\ UNCHANGED <<tasks, next_task_id, treq>>

\* tasks.append(new_task), on the list `tasks` names now
CreateAppend(t) ==
    /\ tpc[t] = "append"
    /\ tasks' = Append(tasks, tlocal[t])
    /\ tpc' = [tpc EXCEPT ![t] = "incr"]
    /\ UNCHANGED <<next_task_id, treq, tlocal, tresp>>

\* next_task_id += 1, then the response
CreateIncr(t) ==
    /\ tpc[t] = "incr"
    /\ next_task_id' = next_task_id + 1
    /\ tpc' = [tpc EXCEPT ![t] = "done"]
    /\ tresp' = [tresp EXCEPT ![t] = 200]
    /\ UNCHANGED <<tasks, treq, tlocal>>

\* delete_task: the comprehension builds the new list
DeleteBuild(t) ==
    /\ tpc[t] = "start"
    /\ treq[t].op = "delete"
    /\ tlocal' = [tlocal EXCEPT ![t] = delete_task(tasks, treq[t].id).tasks]
    /\ tpc' = [tpc EXCEPT ![t] = "bind"]
    /\ UNCHANGED <<tasks, next_task_id, treq, tresp>>

\* delete_task: the global `tasks` is rebound to the new list
DeleteBind(t) ==
    /\ tpc[t] = "bind"
    /\ tasks' = tlocal[t]
    /\ tpc' = [tpc EXCEPT ![t] = "done"]
    /\ tresp' = [tresp EXCEPT ![t] = 200]
    /\ UNCHANGED <<next_task_id, treq, tlocal>>

ConcFrame == UNCHANGED <<nops, assigned, req, resp, streamVars>>

ConcNext ==
    \E t \in Threads :
        \/ Receive(t) /\ ConcFrame
        \/ CreateBuild(t) /\ ConcFrame
        \/ CreateAppend(t) /\ ConcFrame
        \/ CreateIncr(t) /\ ConcFrame
        \/ DeleteBuild(t) /\ ConcFrame
        \/ DeleteBind(t) /\ ConcFrame

ConcSpec == Init /\ [][ConcNext]_vars

\* ================================================================== claims
HasTask(ts, task_id) == \E i \in DOMAIN ts : ts[i].id = task_id
Range(ts) == {ts[i] : i \in DOMAIN ts}
\* sub is s with some elements left out, the rest in the order of s
IsSubsequence(sub, s) ==
    LET m[i \in 0..Len(sub), j \in 0..Len(s)] ==
            IF i = 0 THEN TRUE
            ELSE IF j = 0 THEN FALSE
            ELSE (sub[i] = s[j] /\ m[i - 1, j - 1]) \/ m[i, j - 1]
    IN m[Len(sub), Len(s)]
StoreUnchanged == tasks' = tasks /\ next_task_id' = next_task_id

\* the store after the threads' requests are served one at a time, in the order given
SerialRun(order) ==
    LET store[k \in 0..NumThreads] ==
            IF k = 0
            THEN [tasks |-> InitialTasks, next_task_id |-> InitialNextTaskId]
            ELSE LET r == treq[order[k]]
                     before == store[k - 1]
                 IN IF r.op = "create"
                    THEN LET a == create_task(before.tasks, before.next_task_id,
                                              r.title, r.priority)
                         IN [tasks |-> a.tasks, next_task_id |-> a.next_task_id]
                    ELSE [tasks |-> delete_task(before.tasks, r.id).tasks,
                          next_task_id |-> before.next_task_id]
    IN store[NumThreads]

SerialOrders ==
    {order \in [1..NumThreads -> Threads] :
        \A i, j \in 1..NumThreads : i # j => order[i] # order[j]}

AllDone == \A t \in Threads : tpc[t] = "done"

\* C1: after any sequence of create, toggle, update and delete requests no two
\* live tasks share an id, the ids given out by successive successful creates
\* are strictly increasing, and none of them is an id the store held before
\* (so the id of a deleted task is never given out again).
C1_UniqueIncreasingIds ==
    /\ \A i, j \in DOMAIN tasks : i # j => tasks[i].id # tasks[j].id
    /\ \A i, j \in DOMAIN assigned : i < j => assigned[i] < assigned[j]
    /\ \A k \in DOMAIN assigned : ~HasTask(InitialTasks, assigned[k])

\* two creates have succeeded, the task of the first was deleted before or
\* after the second, and the task of the second is live
C1_Witness ==
    /\ Len(assigned) = 2
    /\ ~HasTask(tasks, assigned[1])
    /\ HasTask(tasks, assigned[2])

\* C2: a create whose title is empty or absent returns 400 whatever the
\* priority and the store, and leaves the task list and the id counter as
\* they were.
C2_CreateRejectsEmptyTitle ==
    [][(req'.op = "create" /\ req'.title \in {None, ""})
        => (resp'.status = 400 /\ resp'.body = <<>> /\ StoreUnchanged)]_vars

\* a create with an empty title was answered 400 after the store had changed
C2_Witness ==
    /\ req.op = "create"
    /\ req.title = ""
    /\ req.priority = "high"
    /\ resp.status = 400
    /\ tasks # InitialTasks

UpdateReplaces ==
    \E i \in DOMAIN tasks :
        /\ tasks[i].id = req'.id
        /\ resp'.status = 200
        /\ Len(tasks') = Len(tasks)
        /\ tasks'[i] = [id |-> tasks[i].id, title |-> req'.title,
                        completed |-> tasks[i].completed, priority |-> req'.priority]
        /\ \A j \in DOMAIN tasks : j # i => tasks'[j] = tasks[j]
        /\ next_task_id' = next_task_id

\* C3 as stated: update answers 400 when the title is empty, 404 when the
\* title is given and no task has the id, and otherwise replaces title and
\* priority in place; the store is unchanged when it fails.
C3_UpdateValidatesFirst ==
    [][req'.op = "update"
        => IF req'.title \in {None, ""} THEN resp'.status = 400 /\ StoreUnchanged
           ELSE IF ~HasTask(tasks, req'.id) THEN resp'.status = 404 /\ StoreUnchanged
           ELSE UpdateReplaces]_vars

\* C3, amended: update answers 404 when no task has the id, whatever the
\* title; 400 when the task exists and the title is empty or absent; the store
\* is unchanged in both cases; otherwise the task's title and priority become
\* the submitted ones, and its id, completed flag, position and every other
\* task stay as they were.
C3_UpdateLooksUpFirst ==
    [][req'.op = "update"
        => IF ~HasTask(tasks, req'.id) THEN resp'.status = 404 /\ StoreUnchanged
           ELSE IF req'.title \in {None, ""} THEN resp'.status = 400 /\ StoreUnchanged
           ELSE UpdateReplaces]_vars

\* an update with an empty title for an id the store does not hold got 404
C3_Witness ==
    /\ req.op = "update"
    /\ req.title = ""
    /\ ~HasTask(tasks, req.id)
    /\ resp.status = 404

\* C4: in every reachable store state every task's priority is "low",
\* "medium" or "high".
C4_PriorityInEnum ==
    \A i \in DOMAIN tasks : tasks[i].priority \in {"low", "medium", "high"}

\* C5 as stated: create("Write spec", "high") on an empty store leaves exactly
\* one task, with id 1, completed false and priority "high".
C5_FirstTaskGetsIdOne ==
    [][(tasks = <<>> /\ req'.op = "create" /\ req'.title = "Write spec"
            /\ req'.priority = "high")
        => (/\ Len(tasks') = 1
            /\ tasks'[1].id = 1
            /\ tasks'[1].completed = FALSE
            /\ tasks'[1].priority = "high")]_vars

\* C5, amended: create("Write spec", "high") on an empty store leaves exactly
\* one task, with completed false, priority "high" and the id the counter
\* held, which is at least 4 and never 1: the store starts with tasks 1, 2, 3
\* and the counter at 4, and deleting does not lower the counter.
C5_FirstTaskGetsCounterId ==
    [][(tasks = <<>> /\ req'.op = "create" /\ req'.title = "Write spec"
            /\ req'.priority = "high")
        => (/\ Len(tasks') = 1
            /\ tasks'[1].id = next_task_id
            /\ tasks'[1].id >= 4
            /\ tasks'[1].title = "Write spec"
            /\ tasks'[1].completed = FALSE
            /\ tasks'[1].priority = "high"
            /\ resp'.status = 200)]_vars

\* the three initial tasks were deleted and create("Write spec", "high") succeeded
C5_Witness ==
    /\ req.op = "create"
    /\ req.title = "Write spec"
    /\ req.priority = "high"
    /\ resp.status = 200
    /\ Len(tasks) = 1

StreamSafe ==
    /\ \A s \in Streams :
        /\ Len(emitted[s]) <= 10
        /\ emitted[s] = [k \in 1..Len(emitted[s]) |-> k]
        /\ spc[s] = "idle" => emitted[s] = <<>>
        /\ spc[s] = "done" => Len(emitted[s]) = 10
    /\ wire # <<>> =>
        /\ wire[1].count \in 1..10
        /\ wire[1].value \in 1..100
        /\ wire[1].message = <<"Update", wire[1].count>>

\* C6: every stream, whatever other streams ran before it or run beside it,
\* yields events numbered 1, 2, ..., 10 in that order, each with a value in
\* 1..100, then ends; a stream that has ended yields nothing more, and a
\* stream that has started does end.
C6_StreamYieldsTenThenEnds ==
    /\ []StreamSafe
    /\ [][\A s \in Streams : spc[s] = "done" => emitted'[s] = emitted[s]]_vars
    /\ \A s \in Streams : (spc[s] = "run") ~> (spc[s] = "done")

\* one stream has ended after its 10 events while another is part-way through
C6_Witness ==
    \E s, u \in Streams :
        /\ s # u
        /\ spc[s] = "done"
        /\ emitted[s] = <<1, 2, 3, 4, 5, 6, 7, 8, 9, 10>>
        /\ spc[u] = "run"
        /\ Len(emitted[u]) \in 1..9

\* C7: delete always answers 200; it removes the task with the id, if there
\* is one, and keeps the others in their order; deleting the same id again
\* answers 200 and leaves the store as the first delete left it.
C7_DeleteIdempotent ==
    [][req'.op = "delete"
        => /\ resp'.status = 200
           /\ next_task_id' = next_task_id
           /\ ~HasTask(tasks', req'.id)
           /\ IF HasTask(tasks, req'.id)
              THEN \E i \in DOMAIN tasks :
                      /\ tasks[i].id = req'.id
                      /\ tasks' = SubSeq(tasks, 1, i - 1) \o SubSeq(tasks, i + 1, Len(tasks))
              ELSE tasks' = tasks
           /\ LET again == delete_task(tasks', req'.id)
              IN again.status = 200 /\ again.tasks = tasks']_vars

\* after task 2 was deleted, a delete of an id the store has never held was
\* answered 200 and tasks 1 and 3 are still there, in that order
C7_Witness ==
    /\ req.op = "delete"
    /\ req.id >= next_task_id
    /\ resp.status = 200
    /\ Len(tasks) = 2
    /\ tasks[1].id = 1
    /\ tasks[2].id = 3

\* C8: toggle of an id the store holds answers 200 and flips that task's
\* completed flag and nothing else, so toggling it again gives back the store
\* as it was; toggle of an id the store does not hold answers 404 and changes
\* nothing.
C8_ToggleInvolution ==
    [][req'.op = "toggle"
        => /\ next_task_id' = next_task_id
           /\ IF HasTask(tasks, req'.id)
              THEN /\ resp'.status = 200
                   /\ \E i \in DOMAIN tasks :
                        /\ tasks[i].id = req'.id
                        /\ tasks' = [tasks EXCEPT ![i].completed = ~tasks[i].completed]
                   /\ toggle_task(tasks', req'.id).tasks = tasks
              ELSE resp'.status = 404 /\ tasks' = tasks]_vars

\* a toggle has just set a task back to not completed
C8_Witness ==
    /\ req.op = "toggle"
    /\ resp.status = 200
    /\ resp.body[1].completed = FALSE

ListPartition ==
    LET completed == get_tasks(tasks, "completed")
        active == get_tasks(tasks, "active")
        all == get_tasks(tasks, "all")
    IN /\ Range(completed) \cap Range(active) = {}
       /\ Range(completed) \cup Range(active) = Range(all)
       /\ all = tasks
       /\ IsSubsequence(completed, tasks)
       /\ IsSubsequence(active, tasks)
       /\ \A i \in DOMAIN completed : completed[i].completed
       /\ \A i \in DOMAIN active : ~active[i].completed
       /\ Len(completed) + Len(active) = Len(tasks)

\* C9: in every reachable store state the completed list and the active list
\* are disjoint, together they hold exactly the tasks of the full list, each
\* is a subsequence of the store in its order, and a list request answers with
\* the list asked for and changes nothing in the store.
C9_ListPartitionsStore ==
    /\ []ListPartition
    /\ [][req'.op = "list"
            => /\ StoreUnchanged
               /\ resp'.status = 200
               /\ IsSubsequence(resp'.body, tasks)
               /\ \A i \in DOMAIN tasks :
                    (\E j \in DOMAIN resp'.body : resp'.body[j] = tasks[i])
                    <=> CASE req'.status = "completed" -> tasks[i].completed
                          [] req'.status = "active" -> ~tasks[i].completed
                          [] OTHER -> TRUE]_vars

\* a list of the completed tasks returned some of the tasks and not all
C9_Witness ==
    /\ req.op = "list"
    /\ req.status = "completed"
    /\ resp.body # <<>>
    /\ Len(resp.body) < Len(tasks)

\* C10: when create and delete handlers interleave, the task list once all of
\* them have returned is the list some serial order of the same requests
\* leaves.
C10_Serializable ==
    AllDone => \E order \in SerialOrders : tasks = SerialRun(order).tasks

====
